---- MODULE Spec2Model ----
(***************************************************************************)
(* Transit finder: the per-pass evaluator (_process_single_pass), the pass *)
(* finder adapter (_discover_passes), the satellite registry               *)
(* (get_satellites, download_tle.py) and the request handler with its      *)
(* process pool (calculate_transits).                                      *)
(*                                                                         *)
(* Units.  Times are Terrestrial-Time instants counted in deciseconds      *)
(* (0.1 s, the fine grid step).  Latitudes and longitudes are in           *)
(* millidegrees, distances in metres, angles (altitude, separation) in     *)
(* hundredths of a degree.  radius_km is in kilometres as in the request.  *)
(***************************************************************************)
EXTENDS Integers, Sequences, FiniteSets, Bags, TLC

VARIABLES
    \* ---- one evaluation of _process_single_pass (specification SpecPass)
    p_item,      \* the work item payload handed to the worker
    p_env,       \* what the ephemeris / SGP4 kernels answer for this pass
    p_pc,        \* "pending" or "returned"
    p_result,    \* None, or the returned event
    p_grids,     \* <<coarse times, fine times, transit_time>> it built
    \* ---- one call of _discover_passes (specification SpecDiscover)
    d_t,         \* the instants returned by find_events
    d_events,    \* the tags returned with them: 0 rise, 1 culminate, 2 set
    d_pc,        \* "pending" or "returned"
    d_passes,    \* the returned list of (t_rise, t_set)
    \* ---- one request through calculate_transits (specification Spec)
    request,     \* the CalculateRequest body
    tle_file,    \* visual.txt: Absent, or <<the set of names it holds>>
    net,         \* per download URL: Absent (it fails), or <<the names it serves>>
    horizon,     \* per satellite name: the [t, events] find_events answers
    sky,         \* per body: what the kernels answer inside a worker (an env)
    faulty,      \* the indexes of the work items whose evaluation raises
    workers,     \* _MAX_WORKERS
    pc,          \* handler position: "idle", "collecting", "responded"
    discovered,  \* TRUE once the handler has run pass discovery
    tasks,       \* list of (sat_name, body_name, rise_tt, set_tt)
    futures,     \* per task index: state and outcome of its future
    all_events,  \* the collector's list
    response     \* <<>> until answered, then <<[status, events]>>

vars_pass == <<p_item, p_env, p_pc, p_result, p_grids>>
vars_disc == <<d_t, d_events, d_pc, d_passes>>
vars_req  == <<request, tle_file, net, horizon, sky, faulty, workers, pc,
               discovered, tasks, futures, all_events, response>>
vars == <<vars_pass, vars_disc, vars_req>>

\* Python's None where an event may stand: a list of at most one event
None == <<>>

Max(a, b) == IF a >= b THEN a ELSE b
Min(a, b) == IF a <= b THEN a ELSE b
Abs(a) == IF a >= 0 THEN a ELSE -a

(***************************************************************************)
(* Program constants.                                                      *)
(***************************************************************************)
CoarseStep == 20          \* 2.0 s between coarse samples
FineHalfWindow == 100     \* 10.0 s on each side of the coarse minimum
CoarseLeewayKm == 500     \* radius_km + 500
AltMin == -200            \* body_alt.degrees < -2.0
SepTransit == 28          \* sep < 0.28
SepMax == 500             \* sep > 5.0
EarthRadiusKm == 6371     \* haversine R
Inf == 1000000000         \* np.inf, above every haversine distance

(***************************************************************************)
(* haversine.  All ground points of the model lie on the observer's        *)
(* meridian (lon1 = lon2), where dlon = 0, a = sin^2(dlat/2) and the       *)
(* result is R * |dlat| in radians.  np.radians of a millidegree is        *)
(* 17.453 microradians; R[km] times microradians is millimetres.           *)
(***************************************************************************)
haversine(lat1, lon1, lat2, lon2) ==
    LET microrad == (Abs(lat2 - lat1) * 17453) \div 1000
    IN  (EarthRadiusKm * microrad) \div 1000

(***************************************************************************)
(* The kernels as seen by one pass.  env is                                *)
(*   [tc, rate, gap_lo, gap_hi, alt0, sep0]:                               *)
(* the shadow point moves along the observer's meridian at rate            *)
(* millidegrees per decisecond and is at the observer's latitude at time   *)
(* tc; the body-satellite ray misses the Earth (discriminant < 0) during   *)
(* [gap_lo, gap_hi); the body's altitude and the separation change with    *)
(* time.                                                                   *)
(***************************************************************************)
get_shadow_path(env, obs_lat, obs_lon, times) ==
    [i \in DOMAIN times |->
        [valid |-> ~(env.gap_lo <= times[i] /\ times[i] < env.gap_hi),
         lat   |-> obs_lat + env.rate * (times[i] - env.tc),
         lon   |-> obs_lon]]

body_altitude(env, t) == env.alt0 + (t \div 20)

separation_from(env, t) == env.sep0 + Abs(t - env.tc)

(***************************************************************************)
(* datetime.isoformat() of a UTC instant, plus "Z", as character codes.    *)
(* Every instant of the model lies in the same hour, so the text up to the *)
(* hour is the same for all and is left out: what is kept is               *)
(*   MM:SS[.f00000]+00:00Z                                                 *)
(* isoformat leaves the fraction out when the microsecond is 0.            *)
(***************************************************************************)
Digit(n) == 48 + n

isoformat(t) ==
    LET sec  == t \div 10
        frac == t % 10
        mm   == (sec \div 60) % 60
        ss   == sec % 60
    IN  <<Digit(mm \div 10), Digit(mm % 10), 58, Digit(ss \div 10), Digit(ss % 10)>>
        \o (IF frac = 0 THEN <<>>
            ELSE <<46, Digit(frac), 48, 48, 48, 48, 48>>)
        \o <<43, 48, 48, 58, 48, 48>>

time_utc_of(t) == isoformat(t) \o <<90>>

(***************************************************************************)
(* _process_single_pass, stage by stage.                                   *)
(***************************************************************************)

\* a slip: rounding the sample count up instead of down
coarse_samples_ceil(duration) == Max(2, (duration \div CoarseStep) + 1)

coarse_samples_of(duration) == Max(2, duration \div CoarseStep)

coarse_times_of(t_rise, n) == [i \in 1..n |-> t_rise + (i - 1) * CoarseStep]

dists_of(samples, obs_lat, obs_lon) ==
    [i \in DOMAIN samples |->
        IF samples[i].valid
        THEN haversine(samples[i].lat, samples[i].lon, obs_lat, obs_lon)
        ELSE Inf]

any_valid(samples) == \E i \in DOMAIN samples : samples[i].valid

\* np.argmin: the first index holding the minimum
argmin(d) ==
    LET values == { d[i] : i \in 1..Len(d) }
        least  == CHOOSE v \in values : \A w \in values : v <= w
    IN  CHOOSE i \in 1..Len(d) : d[i] = least /\ \A k \in 1..(i - 1) : d[k] # least

fine_start_of(t_rise, center) == Max(t_rise, center - FineHalfWindow)

fine_end_of(t_set, center) == Min(t_set, center + FineHalfWindow)

\* int(fine_duration_sec * 10): the window length in deciseconds
fine_samples_of(fine_start, fine_end) == fine_end - fine_start

fine_times_of(fine_start, n) == [j \in 1..n |-> fine_start + (j - 1)]

coarse_gate(min_dist, radius_km) == min_dist > (radius_km + CoarseLeewayKm) * 1000


\* a slip: the coarse leeway applied at the final acceptance gate too
fine_gate_leeway(fine_min_dist, radius_km) ==
    fine_min_dist > (radius_km + CoarseLeewayKm) * 1000

fine_gate(fine_min_dist, radius_km) == fine_min_dist > radius_km * 1000

horizon_gate(alt) == alt < AltMin


\* a slip: the boundary taken as a transit
transit_type_inclusive(sep) == IF sep <= SepTransit THEN "Transit" ELSE "Close Pass"

transit_type_of(sep) == IF sep < SepTransit THEN "Transit" ELSE "Close Pass"

separation_gate(sep) == sep > SepMax


\* a slip: the validity flag not consulted
path_points_all(fine) ==
    [j \in 1..Len(fine) |-> [lat |-> fine[j].lat, lon |-> fine[j].lon]]

path_points_of(fine) ==
    LET kept == SelectSeq(fine, LAMBDA s : s.valid)
    IN  [j \in 1..Len(kept) |-> [lat |-> kept[j].lat, lon |-> kept[j].lon]]

classify(item, env, fine, fine_times, fine_min_idx) ==
    LET transit_time == fine_times[fine_min_idx]
        sep == separation_from(env, transit_time)
    IN  IF horizon_gate(body_altitude(env, transit_time)) THEN None
        ELSE IF separation_gate(sep) THEN None
        ELSE <<[satellite      |-> item.sat_name,
              celestial_body |-> item.body_name,
              transit_type   |-> transit_type_of(sep),
              time_utc       |-> time_utc_of(transit_time),
              separation_deg |-> sep,
              path_points    |-> path_points_of(fine)]>>

\* The function's return value with the locals the claims speak of: the two
\* sample grids (coarse_times_array, fine_times_array) and transit_time, each
\* empty when the function returned before setting it.
Frame(ret, coarse_times, fine_times, transit_time) ==
    [ret |-> ret, coarse_times |-> coarse_times, fine_times |-> fine_times,
     transit_time |-> transit_time]

fine_search(item, env, coarse_times, center) ==
    LET fine_start   == fine_start_of(item.t_rise, center)
        fine_end     == fine_end_of(item.t_set, center)
        fine_samples == fine_samples_of(fine_start, fine_end)
    IN  IF fine_samples < 2 THEN Frame(None, coarse_times, <<>>, <<>>)
        ELSE LET fine_times == fine_times_of(fine_start, fine_samples)
                 fine == get_shadow_path(env, item.obs_lat, item.obs_lon, fine_times)
             IN  IF ~any_valid(fine) THEN Frame(None, coarse_times, fine_times, <<>>)
                 ELSE LET fine_dists == dists_of(fine, item.obs_lat, item.obs_lon)
                          fine_min_idx == argmin(fine_dists)
                      IN  IF fine_gate(fine_dists[fine_min_idx], item.radius_km)
                          THEN Frame(None, coarse_times, fine_times, <<>>)
                          ELSE Frame(classify(item, env, fine, fine_times, fine_min_idx),
                                     coarse_times, fine_times,
                                     <<fine_times[fine_min_idx]>>)

\* sats: the logical names the worker's own get_satellites() resolves
single_pass_frame(item, sats, env) ==
    IF item.sat_name \notin sats THEN Frame(None, <<>>, <<>>, <<>>)
    ELSE LET duration == item.t_set - item.t_rise
         IN  IF duration <= 0 THEN Frame(None, <<>>, <<>>, <<>>)
             ELSE LET coarse_times == coarse_times_of(item.t_rise,
                                                      coarse_samples_of(duration))
                      coarse == get_shadow_path(env, item.obs_lat, item.obs_lon,
                                                coarse_times)
                  IN  IF ~any_valid(coarse) THEN Frame(None, coarse_times, <<>>, <<>>)
                      ELSE LET dists == dists_of(coarse, item.obs_lat, item.obs_lon)
                               min_dist_idx == argmin(dists)
                           IN  IF coarse_gate(dists[min_dist_idx], item.radius_km)
                               THEN Frame(None, coarse_times, <<>>, <<>>)
                               ELSE fine_search(item, env, coarse_times,
                                                coarse_times[min_dist_idx])

process_single_pass(item, sats, env) == single_pass_frame(item, sats, env).ret

(***************************************************************************)
(* _discover_passes.  t and events are what sat.find_events returned.      *)
(***************************************************************************)
\* the inner while loop: the first index from k on that holds a set event,
\* or Len(events) + 1
RECURSIVE scan_to_set(_, _)
scan_to_set(events, k) ==
    IF k <= Len(events) /\ events[k] # 2 THEN scan_to_set(events, k + 1) ELSE k

\* the for loop from index i on, passes being the list built so far
RECURSIVE discover_loop(_, _, _, _)
discover_loop(t, events, i, passes) ==
    IF i > Len(t) THEN passes
    ELSE IF events[i] # 0 THEN discover_loop(t, events, i + 1, passes)
    ELSE LET end_idx == scan_to_set(events, i)
         IN  IF end_idx > Len(t) THEN passes
             ELSE discover_loop(t, events, i + 1,
                                Append(passes, <<t[i], t[end_idx]>>))

\* a slip: the loop started one event late
discover_passes_late(t, events) == discover_loop(t, events, 2, <<>>)

discover_passes(t, events) == discover_loop(t, events, 1, <<>>)

(***************************************************************************)
(* The satellite registry: get_satellites and the download_tle.py script.  *)
(* The file visual.txt is a list of at most one set of catalog names       *)
(* (empty: the file is absent); a download URL answers the same way        *)
(* (empty: the request failed).                                            *)
(***************************************************************************)
Absent == <<>>

\* download_tle.py: the first URL that answers is written to visual.txt
download_tle(file, urls) ==
    IF urls[1] # Absent THEN urls[1]
    ELSE IF urls[2] # Absent THEN urls[2]
    ELSE file

\* the logical names that resolve to a satellite in a catalog
by_name(names) ==
    (IF "ISS (ZARYA)" \in names THEN {"ISS"} ELSE {})
    \cup (IF "CSS (TIANHE)" \in names \/ "CSS (TIANGONG)" \in names
          THEN {"Tiangong"} ELSE {})
    \cup (IF "HST" \in names THEN {"HST"} ELSE {})
    \cup (IF "USA-245" \in names THEN {"KH-11 13"} ELSE {})

\* get_satellites: [raised, sats, file]: whether FileNotFoundError left the
\* function, the names resolved, and visual.txt afterwards
get_satellites(file, urls) ==
    IF file # Absent
    THEN [raised |-> FALSE, sats |-> by_name(file[1]), file |-> file]
    ELSE LET fetched == download_tle(file, urls)
         IN  IF fetched = Absent
             THEN [raised |-> TRUE, sats |-> {}, file |-> fetched]
             ELSE [raised |-> FALSE, sats |-> by_name(fetched[1]), file |-> fetched]

\* the order of the dict get_satellites returns
SatOrder == <<"ISS", "Tiangong", "HST", "KH-11 13">>

(***************************************************************************)
(* calculate_transits.                                                     *)
(***************************************************************************)
\* datetime.fromisoformat on the date texts a request of the model carries:
\* a list of at most one <<year, month, day>> (empty: ValueError)
fromisoformat(text) ==
    CASE text = "2024-05-01" -> << <<2024, 5, 1>> >>
      [] text = "2024-05-02" -> << <<2024, 5, 2>> >>
      [] OTHER -> <<>>

\* sat.find_events(topos, t0, t1): nothing when the window is empty
find_events(answers, sat_name, t0, t1) ==
    IF t0[1] < t1[1] \/ (t0[1] = t1[1] /\ (t0[2] < t1[2] \/ (t0[2] = t1[2] /\ t0[3] < t1[3])))
    THEN answers[sat_name]
    ELSE [t |-> <<>>, events |-> <<>>]

\* the two work items of each pass, in the order of the passes
RECURSIVE tasks_of_passes(_, _)
tasks_of_passes(sat_name, passes) ==
    IF passes = <<>> THEN <<>>
    ELSE << [sat_name |-> sat_name, body_name |-> "Sun",
             rise_tt |-> passes[1][1], set_tt |-> passes[1][2]],
            [sat_name |-> sat_name, body_name |-> "Moon",
             rise_tt |-> passes[1][1], set_tt |-> passes[1][2]] >>
         \o tasks_of_passes(sat_name, Tail(passes))

\* Step 1, the loop over sats.items() from the k-th name on
RECURSIVE discover_tasks(_, _, _, _, _)
discover_tasks(sats, answers, t0, t1, k) ==
    IF k > Len(SatOrder) THEN <<>>
    ELSE LET sat_name == SatOrder[k]
             found == find_events(answers, sat_name, t0, t1)
         IN  (IF sat_name \notin sats THEN <<>>
              ELSE tasks_of_passes(sat_name, discover_passes(found.t, found.events)))
             \o discover_tasks(sats, answers, t0, t1, k + 1)

\* the arguments pool.submit hands to _process_single_pass
payload(task, req) ==
    [sat_name |-> task.sat_name, body_name |-> task.body_name,
     t_rise |-> task.rise_tt, t_set |-> task.set_tt,
     obs_lat |-> req.lat, obs_lon |-> req.lon, radius_km |-> req.radius_km]

\* TransitEvent(...) built from a worker's result
TransitEvent(result) ==
    [satellite      |-> result.satellite,
     celestial_body |-> result.celestial_body,
     transit_type   |-> result.transit_type,
     time_utc       |-> result.time_utc,
     separation_deg |-> result.separation_deg,
     path_points    |-> result.path_points]

\* str < str: code point by code point, a proper prefix first
str_less(a, b) ==
    \E k \in 1..(Min(Len(a), Len(b)) + 1) :
        /\ \A m \in 1..(k - 1) : a[m] = b[m]
        /\ \/ k > Len(a) /\ k <= Len(b)
           \/ k <= Len(a) /\ k <= Len(b) /\ a[k] < b[k]

\* list.sort(key=lambda x: x.time_utc): stable, so an element goes behind the
\* elements before it that are not greater
RECURSIVE sort_by_time_utc(_)
sort_by_time_utc(events) ==
    IF events = <<>> THEN <<>>
    ELSE LET n == Len(events)
             head == sort_by_time_utc(SubSeq(events, 1, n - 1))
             e == events[n]
             keep == Cardinality({ i \in 1..Len(head) :
                                      ~str_less(e.time_utc, head[i].time_utc) })
         IN  SubSeq(head, 1, keep) \o <<e>> \o SubSeq(head, keep + 1, Len(head))

Respond(status, events) == <<[status |-> status, events |-> events]>>

NewFuture == [state |-> "pending", outcome |-> "none", result |-> None]

\* a slip: the list returned as collected
unsorted(events) == events

collector_sort(events) == sort_by_time_utc(events)

\* The handler from its entry to the wait on the pool: the dates, the registry,
\* pass discovery, the submission of every work item.
HandleRequest ==
    /\ pc = "idle"
    /\ LET t0_dt == fromisoformat(request.start_date)
           t1_dt == fromisoformat(request.end_date)
       IN  IF t0_dt = <<>> \/ t1_dt = <<>>
           THEN /\ response' = Respond(400, <<>>)
                /\ pc' = "responded"
                /\ UNCHANGED <<tle_file, discovered, tasks, futures>>
           ELSE LET reg == get_satellites(tle_file, net)
                IN  /\ tle_file' = reg.file
                    /\ IF reg.raised
                       THEN /\ response' = Respond(500, <<>>)
                            /\ pc' = "responded"
                            /\ UNCHANGED <<discovered, tasks, futures>>
                       ELSE /\ discovered' = TRUE
                            /\ tasks' = discover_tasks(reg.sats, horizon,
                                                       t0_dt[1], t1_dt[1], 1)
                            /\ futures' = [i \in 1..Len(tasks') |-> NewFuture]
                            /\ pc' = "collecting"
                            /\ UNCHANGED response
    /\ UNCHANGED <<request, net, horizon, sky, faulty, workers, all_events,
                   vars_pass, vars_disc>>

Running == { i \in 1..Len(futures) : futures[i].state = "running" }

\* a free worker process takes the next work item of the queue
WorkerStart(i) ==
    /\ pc = "collecting"
    /\ futures[i].state = "pending"
    /\ \A j \in 1..(i - 1) : futures[j].state # "pending"
    /\ Cardinality(Running) < workers
    /\ futures' = [futures EXCEPT ![i].state = "running"]
    /\ UNCHANGED <<request, tle_file, net, horizon, sky, faulty, workers, pc,
                   discovered, tasks, all_events, response, vars_pass, vars_disc>>

\* the worker runs _process_single_pass to its end, or to an exception
WorkerFinish(i) ==
    /\ pc = "collecting"
    /\ futures[i].state = "running"
    /\ futures' =
          [futures EXCEPT ![i] =
              IF i \in faulty \/ get_satellites(tle_file, net).raised
              THEN [state |-> "done", outcome |-> "raised", result |-> None]
              ELSE [state |-> "done", outcome |-> "returned",
                    result |-> process_single_pass(
                                   payload(tasks[i], request),
                                   get_satellites(tle_file, net).sats,
                                   sky[tasks[i].body_name])]]
    /\ UNCHANGED <<request, tle_file, net, horizon, sky, faulty, workers, pc,
                   discovered, tasks, all_events, response, vars_pass, vars_disc>>

\* a slip: an exception of one work item answered with an error
CollectOneAbort(i) ==
    /\ pc = "collecting"
    /\ futures[i].state = "done"
    /\ futures' = [futures EXCEPT ![i].state = "collected"]
    /\ IF futures[i].outcome = "raised"
       THEN /\ response' = Respond(500, <<>>)
            /\ pc' = "responded"
            /\ UNCHANGED all_events
       ELSE /\ all_events' = all_events \o
                   [k \in 1..Len(futures[i].result) |-> TransitEvent(futures[i].result[k])]
            /\ UNCHANGED <<pc, response>>
    /\ UNCHANGED <<request, tle_file, net, horizon, sky, faulty, workers,
                   discovered, tasks, vars_pass, vars_disc>>

\* a slip: a result appended twice
CollectOneTwice(i) ==
    /\ pc = "collecting"
    /\ futures[i].state = "done"
    /\ futures' = [futures EXCEPT ![i].state = "collected"]
    /\ all_events' = all_events \o
          [k \in 1..(2 * Len(futures[i].result)) |-> TransitEvent(futures[i].result[1])]
    /\ UNCHANGED <<request, tle_file, net, horizon, sky, faulty, workers, pc,
                   discovered, tasks, response, vars_pass, vars_disc>>

\* one turn of the as_completed loop: an exception is passed over, a None
\* result adds nothing, an event is appended
CollectOne(i) ==
    /\ pc = "collecting"
    /\ futures[i].state = "done"
    /\ futures' = [futures EXCEPT ![i].state = "collected"]
    /\ all_events' = all_events \o
          [k \in 1..Len(futures[i].result) |-> TransitEvent(futures[i].result[k])]
    /\ UNCHANGED <<request, tle_file, net, horizon, sky, faulty, workers, pc,
                   discovered, tasks, response, vars_pass, vars_disc>>

\* the pool has been waited for: the sort and the response
Finish ==
    /\ pc = "collecting"
    /\ \A i \in 1..Len(futures) : futures[i].state = "collected"
    /\ all_events' = collector_sort(all_events)
    /\ response' = Respond(200, all_events')
    /\ pc' = "responded"
    /\ UNCHANGED <<request, tle_file, net, horizon, sky, faulty, workers,
                   discovered, tasks, futures, vars_pass, vars_disc>>

(***************************************************************************)
(* SpecPass: one work item through _process_single_pass.                   *)
(***************************************************************************)
MaxShortDur == 45     \* every duration from -1 to 4.5 s is tried
LongDurs == {137, 200, 260}
PassRise == 600
ObsLat == 48857
ObsLon == 2352
PassRadii == {0, 25, 300}
TcOffsets == {-900, -300, 3, 21, 130}
GapOffsets == {<<0, 0>>, <<-100000, 100000>>, <<2, 25>>, <<0, 18>>, <<0, 41>>}
Alt0s == {-232, 3000}
Sep0s == {0, 27, 28, 499}
ShadowRate == 6       \* about 0.67 km of ground track per 0.1 s

PassDurations == (-1..MaxShortDur) \cup LongDurs

PassEnvs ==
    { [tc |-> PassRise + o, rate |-> ShadowRate,
       gap_lo |-> PassRise + g[1], gap_hi |-> PassRise + g[2],
       alt0 |-> a, sep0 |-> s] :
        o \in TcOffsets, g \in GapOffsets, a \in Alt0s, s \in Sep0s }

PassItem(name, d, r) ==
    [sat_name |-> name, body_name |-> "Sun", t_rise |-> PassRise,
     t_set |-> PassRise + d, obs_lat |-> ObsLat, obs_lon |-> ObsLon,
     radius_km |-> r]

PassSats == {"ISS"}

ReqIdle ==
    /\ request = <<>> /\ tle_file = {} /\ net = <<>> /\ horizon = <<>>
    /\ sky = <<>> /\ faulty = {} /\ workers = 0 /\ pc = "off"
    /\ discovered = FALSE /\ tasks = <<>> /\ futures = <<>>
    /\ all_events = <<>> /\ response = <<>>

DiscIdle == d_t = <<>> /\ d_events = <<>> /\ d_pc = "off" /\ d_passes = <<>>

PassIdle ==
    /\ p_item = None /\ p_env = None /\ p_pc = "off" /\ p_result = None
    /\ p_grids = <<>>

InitPass ==
    /\ \/ \E d \in PassDurations, r \in PassRadii : p_item = PassItem("ISS", d, r)
       \/ p_item = PassItem("HST", 30, 25)
    /\ p_env \in PassEnvs
    /\ p_pc = "pending" /\ p_result = None /\ p_grids = <<>>
    /\ DiscIdle /\ ReqIdle

EvaluatePass ==
    /\ p_pc = "pending"
    /\ p_pc' = "returned"
    /\ LET frame == single_pass_frame(p_item, PassSats, p_env)
       IN  /\ p_result' = frame.ret
           /\ p_grids' = <<frame.coarse_times, frame.fine_times, frame.transit_time>>
    /\ UNCHANGED <<p_item, p_env, vars_disc, vars_req>>

NextPass == EvaluatePass

SpecPass == InitPass /\ [][NextPass]_vars

(***************************************************************************)
(* What the claims about one evaluation speak of, stated from the kernels' *)
(* answers and the item alone.                                             *)
(***************************************************************************)
Returned == p_pc = "returned"
Emitted == Returned /\ p_result # None
PassDuration == p_item.t_set - p_item.t_rise
Evaluated == Returned /\ p_item.sat_name \in PassSats /\ PassDuration > 0

SampleAt(u) == get_shadow_path(p_env, p_item.obs_lat, p_item.obs_lon, <<u>>)[1]
ValidAt(u) == SampleAt(u).valid
SubpointAt(u) == [lat |-> SampleAt(u).lat, lon |-> SampleAt(u).lon]
GroundDist(u) ==
    IF ValidAt(u)
    THEN haversine(SampleAt(u).lat, SampleAt(u).lon, p_item.obs_lat, p_item.obs_lon)
    ELSE Inf

\* the coarse grid: N_c = max(2, floor(D / 2 s)) instants 2 s apart from t_rise
CoarseCount == IF PassDuration \div 20 > 2 THEN PassDuration \div 20 ELSE 2
CoarseGrid == { p_item.t_rise + 20 * i : i \in 0..(CoarseCount - 1) }
CoarseMinDist == CHOOSE d \in { GroundDist(u) : u \in CoarseGrid } :
                     \A u \in CoarseGrid : d <= GroundDist(u)
\* the earliest coarse instant at the coarse minimum
CoarseCenter == CHOOSE c \in CoarseGrid :
                    /\ GroundDist(c) = CoarseMinDist
                    /\ \A u \in CoarseGrid : GroundDist(u) = CoarseMinDist => c <= u
\* the fine grid: 0.1 s apart over the window of +-10 s clipped to the pass
FineGrid ==
    LET lo == IF CoarseCenter - 100 > p_item.t_rise THEN CoarseCenter - 100
              ELSE p_item.t_rise
        hi == IF CoarseCenter + 100 < p_item.t_set THEN CoarseCenter + 100
              ELSE p_item.t_set
    IN  lo..(hi - 1)
FineValid == { u \in FineGrid : ValidAt(u) }
ReachedFine == Evaluated /\ CoarseMinDist <= (p_item.radius_km + 500) * 1000

\* C1: an event is returned only if, at the instant of the fine-grid minimum, the
\* shadow track is within radius_km of the observer, the body is at -2 degrees or
\* higher and the separation is at most 5 degrees; an item that passes the coarse
\* gate but whose fine-grid minimum is beyond radius_km returns no event.
C1_EmittedOnlyWithinGates ==
    /\ Emitted =>
          LET t == p_grids[3][1]
              grid == FineGrid
              dt == GroundDist(t)
          IN  /\ t \in grid
              /\ \A u \in grid : dt <= GroundDist(u)
              /\ dt <= p_item.radius_km * 1000
              /\ body_altitude(p_env, t) >= -200
              /\ separation_from(p_env, t) <= 500
    /\ (ReachedFine /\ \A u \in FineGrid : GroundDist(u) > p_item.radius_km * 1000)
          => p_result = None

\* an event returned for a 25 km radius although the nearest coarse sample was
\* farther away than 25 km, as a close pass
C1_Witness ==
    /\ Emitted
    /\ p_item.radius_km = 25
    /\ CoarseMinDist > 25000
    /\ separation_from(p_env, p_grids[3][1]) > 28

\* C2: a returned event is a "Transit" exactly when its separation is below 0.28
\* degrees and a "Close Pass" otherwise, with separation between 0.28 and 5.0;
\* there is no third transit_type.
C2_TransitTypeBySeparation ==
    Emitted =>
        LET e == p_result[1]
        IN  /\ e.transit_type \in {"Transit", "Close Pass"}
            /\ e.transit_type = "Transit" <=> e.separation_deg < 28
            /\ e.transit_type = "Close Pass" =>
                   (28 <= e.separation_deg /\ e.separation_deg <= 500)
            /\ e.separation_deg = separation_from(p_env, p_grids[3][1])

\* a close pass at exactly 0.28 degrees
C2_Witness ==
    Emitted /\ p_result[1].separation_deg = 28 /\ p_result[1].transit_type = "Close Pass"

\* C9: path_points of a returned event are the subpoints of the valid fine samples,
\* all of them and only them, in time order; the list is not empty and holds the
\* fine-minimum sample, which is within radius_km of the observer.
C9_PathPointsAreValidFineSamples ==
    Emitted =>
        LET pp == p_result[1].path_points
            t == p_grids[3][1]
            fv == FineValid
            rank(u) == Cardinality({ w \in fv : w <= u })
        IN  /\ Len(pp) = Cardinality(fv)
            /\ \A u \in fv : pp[rank(u)] = SubpointAt(u)
            /\ Len(pp) > 0
            /\ t \in fv
            /\ haversine(pp[rank(t)].lat, pp[rank(t)].lon,
                         p_item.obs_lat, p_item.obs_lon) <= p_item.radius_km * 1000

\* an event whose fine window holds invalid samples as well as valid ones
C9_Witness ==
    /\ Emitted
    /\ FineValid # FineGrid
    /\ Len(p_result[1].path_points) >= 2

\* C10 as claimed: for every pass of positive duration the coarse grid is
\* N_c = max(2, floor(D/2)) instants t_rise + i * 2 s, all of them in
\* [t_rise, t_set), and every fine sample lies in [t_rise, t_set].
C10_AsClaimed ==
    Evaluated =>
        /\ Len(p_grids[1]) = CoarseCount
        /\ \A i \in 1..Len(p_grids[1]) :
               /\ p_grids[1][i] = p_item.t_rise + 20 * (i - 1)
               /\ p_item.t_rise <= p_grids[1][i] /\ p_grids[1][i] < p_item.t_set
        /\ \A j \in 1..Len(p_grids[2]) :
               p_item.t_rise <= p_grids[2][j] /\ p_grids[2][j] <= p_item.t_set

\* C10 amended: the coarse grid is N_c = max(2, floor(D/2)) instants
\* t_rise + i * 2 s; they all lie in [t_rise, t_set) when D > 2 s, and when
\* 0 < D <= 2 s the second of the two, t_rise + 2 s, lies at or after t_set;
\* every fine sample lies in [t_rise, t_set] whatever D is.
C10_CoarseGridInsidePassBeyondTwoSeconds ==
    Evaluated =>
        /\ Len(p_grids[1]) = CoarseCount
        /\ \A i \in 1..Len(p_grids[1]) :
               /\ p_grids[1][i] = p_item.t_rise + 20 * (i - 1)
               /\ PassDuration > 20 =>
                      (p_item.t_rise <= p_grids[1][i] /\ p_grids[1][i] < p_item.t_set)
        /\ PassDuration <= 20 =>
               (Len(p_grids[1]) = 2 /\ p_grids[1][2] >= p_item.t_set)
        /\ \A j \in 1..Len(p_grids[2]) :
               p_item.t_rise <= p_grids[2][j] /\ p_grids[2][j] <= p_item.t_set

\* a pass of between 2 and 4 seconds whose fine grid was built
C10_Witness ==
    /\ Evaluated
    /\ PassDuration > 20 /\ PassDuration < 40
    /\ Len(p_grids[2]) >= 2

(***************************************************************************)
(* SpecDiscover: one call of _discover_passes on every tag sequence of up  *)
(* to MaxEvents events.                                                    *)
(***************************************************************************)
MaxEvents == 5
EventGap == 300

TagSeqs == UNION { [1..n -> {0, 1, 2}] : n \in 0..MaxEvents }

InitDiscover ==
    /\ d_events \in TagSeqs
    /\ d_t = [i \in 1..Len(d_events) |-> PassRise + EventGap * i]
    /\ d_pc = "pending" /\ d_passes = <<>>
    /\ PassIdle /\ ReqIdle

DiscoverPasses ==
    /\ d_pc = "pending"
    /\ d_pc' = "returned"
    /\ d_passes' = discover_passes(d_t, d_events)
    /\ UNCHANGED <<d_t, d_events, vars_pass, vars_req>>

NextDiscover == DiscoverPasses

SpecDiscover == InitDiscover /\ [][NextDiscover]_vars

\* the rise events that have a set event after them
PairedRises ==
    { i \in 1..Len(d_events) :
        d_events[i] = 0 /\ \E k \in (i + 1)..Len(d_events) : d_events[k] = 2 }
\* the first set event after event i
NextSet(i) ==
    CHOOSE k \in (i + 1)..Len(d_events) :
        d_events[k] = 2 /\ \A m \in (i + 1)..(k - 1) : d_events[m] # 2

\* C7: the returned list holds, in order of rise, exactly one interval for each
\* rise event that has a set event after it, from the rise to the first set after
\* it; a rise with no set after it and the events before the first rise give none.
C7_EachRisePairedWithNextSet ==
    d_pc = "returned" =>
        LET rank(i) == Cardinality({ j \in PairedRises : j <= i })
        IN  /\ Len(d_passes) = Cardinality(PairedRises)
            /\ \A i \in PairedRises : d_passes[rank(i)] = <<d_t[i], d_t[NextSet(i)]>>

\* set, rise, culminate, set, rise: one interval, the leading set and the
\* dangling rise give none
C7_Witness ==
    /\ d_pc = "returned"
    /\ d_events = <<2, 0, 1, 2, 0>>
    /\ d_passes = <<<<d_t[2], d_t[4]>>>>

(***************************************************************************)
(* Spec: one request through calculate_transits and its process pool.      *)
(***************************************************************************)
MaxWorkers == 2

GoodRequest ==
    [lat |-> ObsLat, lon |-> ObsLon, radius_km |-> 50,
     start_date |-> "2024-05-01", end_date |-> "2024-05-02"]

ProbeRequests ==
    { GoodRequest,
      [GoodRequest EXCEPT !.start_date = "2024/05/01"],
      [GoodRequest EXCEPT !.end_date = "tomorrow"],
      [GoodRequest EXCEPT !.end_date = "2024-05-01"],
      [GoodRequest EXCEPT !.lat = 100000],
      [GoodRequest EXCEPT !.lon = -181000],
      [GoodRequest EXCEPT !.radius_km = 0],
      [GoodRequest EXCEPT !.radius_km = -5] }

Catalogs == { {"ISS (ZARYA)", "CSS (TIANGONG)"}, {"CSS (TIANHE)", "HST"} }

FileStates == { <<c>> : c \in Catalogs \cup {{}} }

NetStates ==
    { <<Absent, Absent>>,
      <<Absent, <<{"ISS (ZARYA)"}>> >>,
      << <<{"ISS (ZARYA)", "CSS (TIANHE)"}>>, Absent >> }

NoPass == [t |-> <<>>, events |-> <<>>]
OnePass(r, s) == [t |-> <<r, r + 10, s>>, events |-> <<0, 1, 2>>]
\* up at t0, then a whole pass, a second one, and a rise that does not set
TwoPasses ==
    [t |-> <<PassRise - 50, PassRise, PassRise + 15, PassRise + 30,
             PassRise + 300, PassRise + 306, PassRise + 312, PassRise + 2000>>,
     events |-> <<2, 0, 1, 2, 0, 1, 2, 0>>]

Horizon(iss, css, hst) ==
    [n \in {"ISS", "Tiangong", "HST", "KH-11 13"} |->
        CASE n = "ISS" -> iss [] n = "Tiangong" -> css [] n = "HST" -> hst
          [] OTHER -> NoPass]

HorizonStates ==
    { Horizon(OnePass(PassRise, PassRise + 30), OnePass(PassRise + 100, PassRise + 125),
              OnePass(PassRise + 40, PassRise + 60)),
      Horizon(TwoPasses, NoPass, NoPass),
      Horizon(TwoPasses, OnePass(PassRise + 100, PassRise + 125), NoPass),
      Horizon(OnePass(PassRise, PassRise + 30), NoPass, NoPass),
      Horizon(NoPass, NoPass, NoPass) }

SkyEnv(tc, glo, ghi, alt0, sep0) ==
    [tc |-> PassRise + tc, rate |-> ShadowRate, gap_lo |-> PassRise + glo,
     gap_hi |-> PassRise + ghi, alt0 |-> alt0, sep0 |-> sep0]

SkyStates ==
    { [b \in {"Sun", "Moon"} |->
          IF b = "Sun" THEN SkyEnv(50, 0, 0, 3000, 0) ELSE SkyEnv(50, 0, 0, 3000, 100)],
      [b \in {"Sun", "Moon"} |->
          IF b = "Sun" THEN SkyEnv(3, 5, 12, 3000, 27) ELSE SkyEnv(-900, 0, 0, 3000, 0)],
      [b \in {"Sun", "Moon"} |->
          IF b = "Sun" THEN SkyEnv(50, 0, 0, 3000, 0) ELSE SkyEnv(110, 0, 0, -5000, 0)] }

FaultySets == { {}, {1}, {2, 3} }

InitProbe ==
    /\ request \in ProbeRequests
    /\ \/ tle_file \in FileStates /\ net = <<Absent, Absent>>
       \/ tle_file = Absent /\ net \in NetStates
    /\ horizon = Horizon(OnePass(PassRise, PassRise + 30), NoPass, NoPass)
    /\ sky = [b \in {"Sun", "Moon"} |-> SkyEnv(3, 0, 0, 3000, 0)]
    /\ faulty = {}
    /\ workers = 1

InitPool ==
    /\ request = GoodRequest
    /\ tle_file \in { <<c>> : c \in Catalogs }
    /\ net = <<Absent, Absent>>
    /\ horizon \in HorizonStates
    /\ sky \in SkyStates
    /\ faulty \in FaultySets
    /\ workers \in 1..MaxWorkers

Init ==
    /\ InitProbe \/ InitPool
    /\ pc = "idle" /\ discovered = FALSE /\ tasks = <<>> /\ futures = <<>>
    /\ all_events = <<>> /\ response = <<>>
    /\ PassIdle /\ DiscIdle

Next ==
    \/ HandleRequest
    \/ \E i \in 1..Len(futures) : WorkerStart(i)
    \/ \E i \in 1..Len(futures) : WorkerFinish(i)
    \/ \E i \in 1..Len(futures) : CollectOne(i)
    \/ Finish

Spec == Init /\ [][Next]_vars

Responded == pc = "responded"
Answered200 == Responded /\ response[1].status = 200
Count(seq, e) == Cardinality({ i \in 1..Len(seq) : seq[i] = e })
SameBag(a, b) ==
    /\ Len(a) = Len(b)
    /\ \A i \in 1..Len(a) : Count(a, a[i]) = Count(b, a[i])
RECURSIVE Flatten(_)
Flatten(lists) == IF lists = <<>> THEN <<>> ELSE lists[1] \o Flatten(Tail(lists))

\* C3: the events of the response are in ascending order of time_utc, and the
\* response is the sorted list of a collector that had every work item's future
\* in hand: nothing is appended after the sort.
C3_ResponseSortedAfterAllCompleted ==
    Answered200 =>
        LET ev == response[1].events
        IN  /\ \A i \in 1..Len(ev) : \A j \in (i + 1)..Len(ev) :
                   ~str_less(ev[j].time_utc, ev[i].time_utc)
            /\ \A i \in 1..Len(futures) : futures[i].state = "collected"
            /\ ev = all_events

\* three events in the response, from work items collected out of time order
C3_Witness ==
    /\ Answered200
    /\ Len(response[1].events) >= 3
    /\ \E i \in 1..Len(futures) : \E j \in (i + 1)..Len(futures) :
           /\ futures[i].result # None /\ futures[j].result # None
           /\ str_less(futures[j].result[1].time_utc, futures[i].result[1].time_utc)

\* C4: a work item whose evaluation raises is dropped and the request goes on:
\* the answer is a 200 given after every future was collected, and its events are
\* exactly those returned by the work items that did not raise.
C4_FailedItemsDroppedOnly ==
    (Responded /\ discovered) =>
        /\ response[1].status = 200
        /\ \A i \in 1..Len(futures) :
               /\ futures[i].state = "collected"
               /\ i \in faulty <=> futures[i].outcome = "raised"
        /\ SameBag(response[1].events,
                   Flatten([i \in 1..Len(futures) |->
                               IF futures[i].outcome = "returned"
                               THEN [k \in 1..Len(futures[i].result) |->
                                        TransitEvent(futures[i].result[k])]
                               ELSE <<>>]))

\* a request answered with events although two of its work items raised
C4_Witness ==
    /\ Responded /\ discovered
    /\ Cardinality({ i \in 1..Len(futures) : futures[i].outcome = "raised" }) = 2
    /\ response[1].events # <<>>

\* what the request's inputs alone determine: the work items and their events
ExpectedSats == get_satellites(tle_file, net).sats
ExpectedTasks ==
    discover_tasks(ExpectedSats, horizon, fromisoformat(request.start_date)[1],
                   fromisoformat(request.end_date)[1], 1)
ExpectedEvents ==
    LET found == ExpectedTasks
    IN  Flatten([i \in 1..Len(found) |->
                    IF i \in faulty THEN <<>>
                    ELSE LET r == process_single_pass(payload(found[i], request),
                                                      ExpectedSats,
                                                      sky[found[i].body_name])
                         IN  [k \in 1..Len(r) |-> TransitEvent(r[k])]])

\* C8: whatever the number of workers and the order in which work items start,
\* finish and are collected, the response holds the events the request's inputs
\* determine, each once: at most one per work item, none lost, none twice.
C8_EventsIndependentOfSchedule ==
    Answered200 =>
        /\ SameBag(response[1].events, ExpectedEvents)
        /\ Len(response[1].events) <= Len(tasks)
        /\ \A i \in 1..Len(futures) : Len(futures[i].result) <= 1

\* two workers; the Moon event of a pass collected before its Sun event, which
\* has the same time_utc, so that the list shows the order of completion
C8_Witness ==
    /\ Answered200
    /\ workers = 2
    /\ \E k \in 1..(Len(response[1].events) - 1) :
           /\ response[1].events[k].celestial_body = "Moon"
           /\ response[1].events[k + 1].celestial_body = "Sun"
           /\ response[1].events[k].time_utc = response[1].events[k + 1].time_utc
           /\ response[1].events[k].satellite = response[1].events[k + 1].satellite

\* the numeric ranges of the request: lat -90..90, lon -180..180, radius_km > 0
OutOfRange(req) ==
    \/ req.lat < -90000 \/ req.lat > 90000
    \/ req.lon < -180000 \/ req.lon > 180000
    \/ req.radius_km <= 0

\* C5 as claimed: with visual.txt absent and every download failing, a request
\* with well-formed dates and numbers in range is answered 200 with no events.
C5_AsClaimed ==
    (/\ Responded
     /\ ~OutOfRange(request)
     /\ tle_file = Absent /\ net = <<Absent, Absent>>
     /\ fromisoformat(request.start_date) # <<>>
     /\ fromisoformat(request.end_date) # <<>>)
        => (response[1].status = 200 /\ response[1].events = <<>>)

\* C6 as claimed: a request whose dates do not parse or whose lat, lon or
\* radius_km is out of range is answered 400, and neither pass discovery nor a
\* work item is started for it.
C6_AsClaimed ==
    (/\ pc # "idle"
     /\ \/ fromisoformat(request.start_date) = <<>>
        \/ fromisoformat(request.end_date) = <<>>
        \/ OutOfRange(request))
        => (/\ Responded /\ response[1].status = 400
            /\ ~discovered /\ tasks = <<>>)

====
